---- MODULE Spec2Model ----
(***************************************************************************)
(* A model of the beacon store library: createStore (lib/store.ts), the    *)
(* localStorage middleware (lib/middleware/localStorage.ts), compose, and  *)
(* the signal / computed / effect primitives of @preact/signals-react as  *)
(* the library uses them.  Every operation of the library is synchronous, *)
(* so each one is a single atomic action.                                  *)
(***************************************************************************)
EXTENDS Integers, Sequences, FiniteSets, TLC

VARIABLES
    localStorage,   \* window.localStorage: its entries by key, and its fault
    base,           \* the StoreConfig the application wrote
    config,         \* the StoreConfig it currently passes to createStore
    stores,         \* the stores createStore has returned, oldest first
    created,        \* outcome of the latest createStore call
    lastInvoke,     \* what the latest bound-action invocation did
    lastRead,       \* what the latest read (cell, derived cell, snapshot) returned
    lastConfig,     \* what the latest localStoragePlugin or compose call did
    telemetry       \* the effect of initializeTelemetry and what it has sent

vars == <<localStorage, base, config, stores, created, lastInvoke, lastRead,
          lastConfig, telemetry>>

-----------------------------------------------------------------------------
(* Bounds of the model *)

MaxVal == 2       \* cell values and action arguments range over 0..MaxVal
MaxLayers == 2    \* localStoragePlugin applications on one config

(* JavaScript values that are not numbers *)
Undefined == -1   \* undefined
TypeErr == -2     \* a TypeError thrown by reading .value of undefined
StorageErr == -3  \* a DOMException thrown by window.localStorage

Values == 0..MaxVal

-----------------------------------------------------------------------------
(* Names *)

\* keys an initialState may carry
FieldNames == {"count", "total", "actions"}
\* keys a derived map may carry
DerivedNames == {"doubled", "count", "toString", "actions"}
\* properties every plain object inherits from Object.prototype; the `in`
\* operator of store.ts:38 sees them on the empty literal of store.ts:28
ObjectPrototypeKeys == {"toString", "constructor", "hasOwnProperty", "valueOf"}
\* the keys of config.actions
ActionNames == {"increment", "setPair"}
\* localStorage keys (the `name` option)
StorageNames == {"app", "cart"}

\* the order in which JSON text lists the keys of a record
KeyOrder == <<"count", "total", "actions", "doubled">>

EmptyRecord == [k \in {} |-> 0]

\* { ...a, ...b }: the keys of both, b's value where both have the key
Spread(a, b) ==
    [k \in DOMAIN a \cup DOMAIN b |-> IF k \in DOMAIN b THEN b[k] ELSE a[k]]

\* key in obj, for a plain object with own keys `own`
HasProperty(own, key) == key \in own \/ key \in ObjectPrototypeKeys

-----------------------------------------------------------------------------
(* Derivation functions a config may carry, keyed by the name they are     *)
(* declared under.  Each reads cells.<k>.value of the cell set it is given *)
(* and throws a TypeError when a cell it reads does not exist.             *)

\* the cells the derivation declared under `name` reads
DerivedReads(name) ==
    IF name = "sortedProducts" THEN {"products", "sortBy", "sortDirection"}
    ELSE IF name = "selectedProduct" THEN {"selectedProductId", "products"}
    ELSE IF name \in {"doubled", "count"} THEN {"count"} ELSE {"count", "total"}

\* doubled: cells => cells.count.value * 2; the others: count + total
DerivedFn(name, cellValues) ==
    IF ~(DerivedReads(name) \subseteq DOMAIN cellValues) THEN TypeErr
    ELSE IF name \in {"doubled", "count"} THEN cellValues["count"] * 2
    ELSE cellValues["count"] + cellValues["total"]

-----------------------------------------------------------------------------
(* JSON text.  A stored text is a list of key/value pairs in key order;    *)
(* JSON.stringify writes it from a record and JSON.parse reads it back,    *)
(* throwing on a text that is not well formed.                             *)

NoItem == [kind |-> "null", pairs |-> <<>>]        \* getItem returns null
JsonText(pairs) == [kind |-> "json", pairs |-> pairs]
Garbage == [kind |-> "garbage", pairs |-> <<>>]    \* a text JSON.parse rejects
EmptyText == [kind |-> "empty", pairs |-> <<>>]    \* the empty string

\* window.localStorage holding `items`.  fault "denied": getItem and setItem
\* throw (SecurityError); fault "full": setItem throws (QuotaExceededError)
\* setItems: the setItem calls of the latest operation of the library, in
\* call order, each with the key and the text it was given
Storage(items) == [items |-> items, fault |-> "none", setItems |-> <<>>]

\* the storage as an operation of the library finds it
Cleared(storage) == [storage EXCEPT !.setItems = <<>>]

RECURSIVE SerializeFrom(_, _)
SerializeFrom(record, i) ==
    IF i > Len(KeyOrder) THEN <<>>
    ELSE IF KeyOrder[i] \in DOMAIN record
         THEN <<<<KeyOrder[i], record[KeyOrder[i]]>>>> \o SerializeFrom(record, i + 1)
         ELSE SerializeFrom(record, i + 1)

\* serialize = JSON.stringify
serialize(record) == JsonText(SerializeFrom(record, 1))

RECURSIVE ParsePairs(_)
ParsePairs(pairs) ==
    IF pairs = <<>> THEN EmptyRecord
    ELSE LET last == pairs[Len(pairs)]
             rest == ParsePairs(SubSeq(pairs, 1, Len(pairs) - 1))
         IN  [k \in DOMAIN rest \cup {last[1]} |->
                 IF k = last[1] THEN last[2] ELSE rest[k]]

\* deserialize = JSON.parse: [threw, value]
deserialize(text) ==
    IF text.kind = "json"
    THEN [threw |-> FALSE, value |-> ParsePairs(text.pairs)]
    ELSE [threw |-> TRUE, value |-> EmptyRecord]

-----------------------------------------------------------------------------
(* createStore *)

\* a computed() signal before its first read: nothing cached
NewComputed(key) == [key |-> key, cached |-> Undefined, stale |-> TRUE]

\* index of the first derived key, in iteration order, for which
\* `key in stateSignals` holds; 0 when there is none
RECURSIVE FirstConflict(_, _, _)
FirstConflict(derivedKeys, stateKeys, i) ==
    IF i > Len(derivedKeys) THEN 0
    ELSE IF HasProperty(stateKeys, derivedKeys[i]) THEN i
    ELSE FirstConflict(derivedKeys, stateKeys, i + 1)

SeqRange(seq) == {seq[i] : i \in DOMAIN seq}

\* { ...stateSignals, ...derived, actions, getStateSnapshot }: what each
\* property of the returned object is
StoreObject(stateKeys, derivedKeys) ==
    [k \in stateKeys \cup derivedKeys \cup {"actions", "getStateSnapshot"} |->
        IF k = "getStateSnapshot" THEN "function"
        ELSE IF k = "actions" THEN "actionMap"
        ELSE IF k \in derivedKeys THEN "computed"
        ELSE "signal"]

\* createStore(cfg): [threw, errKey, store]
createStore(cfg) ==
    LET stateKeys == DOMAIN cfg.initialState
        conflict == FirstConflict(cfg.derived, stateKeys, 1)
    IN  IF conflict # 0
        THEN [threw |-> TRUE, errKey |-> cfg.derived[conflict], store |-> <<>>]
        ELSE [threw |-> FALSE, errKey |-> "",
              store |-> [initialState |-> cfg.initialState,
                         cells |-> [k \in stateKeys |-> cfg.initialState[k]],
                         derived |-> [i \in DOMAIN cfg.derived |-> NewComputed(cfg.derived[i])],
                         actions |-> cfg.actions,
                         props |-> StoreObject(stateKeys, SeqRange(cfg.derived)),
                         effects |-> <<>>,
                         onStoreCreated |-> cfg.onStoreCreated,
                         hookRuns |-> 0,
                         hookTrace |-> <<>>,
                         hookSaw |-> <<>>]]

\* getStateSnapshot as it would be if it copied the derived cells as well
getStateSnapshotAll(store, withDerived) ==
    [k \in DOMAIN store.cells \cup {store.derived[i].key : i \in DOMAIN store.derived} |->
        IF k \in DOMAIN store.cells THEN store.cells[k] ELSE Undefined]

\* getStateSnapshot(opt): the option is not read
getStateSnapshot(store, withDerived) ==
    [k \in DOMAIN store.cells |-> store.cells[k]]

\* reading computedSignal.value: recomputed from the live cells when a cell it
\* read has been written since it was cached
ComputedValue(store, i) ==
    IF store.derived[i].stale
    THEN DerivedFn(store.derived[i].key, store.cells)
    ELSE store.derived[i].cached

\* the store after derived cell i has been read
ComputedRead(store, i) ==
    [store EXCEPT !.derived[i] =
        [key |-> @.key, cached |-> ComputedValue(store, i), stale |-> FALSE]]

\* index of the derived cell declared under key (0: none)
DerivedIndex(store, key) ==
    IF \E i \in DOMAIN store.derived : store.derived[i].key = key
    THEN CHOOSE i \in DOMAIN store.derived : store.derived[i].key = key
    ELSE 0

\* store[key].value as a caller of the returned object sees it
StoreValue(store, key) ==
    IF key \notin DOMAIN store.props THEN Undefined
    ELSE IF store.props[key] = "signal" THEN store.cells[key]
    ELSE IF store.props[key] = "computed" THEN ComputedValue(store, DerivedIndex(store, key))
    ELSE Undefined

-----------------------------------------------------------------------------
(* The persistence effect and cell writes *)

\* SetItem as it would be if an existing entry were kept
SetItemIfAbsent(storage, name, text) ==
    IF storage.fault = "denied" THEN storage
    ELSE IF storage.fault = "full" \/ storage.items[name].kind # "null"
    THEN [storage EXCEPT !.setItems = Append(@, <<name, text>>)]
    ELSE [storage EXCEPT !.items[name] = text,
                         !.setItems = Append(@, <<name, text>>)]

\* window.localStorage.setItem(name, text): the storage after the call; the
\* entry is set unless the call throws, and access to a denied storage throws
\* before setItem is called
SetItem(storage, name, text) ==
    IF storage.fault = "denied" THEN storage
    ELSE IF storage.fault = "full"
    THEN [storage EXCEPT !.setItems = Append(@, <<name, text>>)]
    ELSE [storage EXCEPT !.items[name] = text,
                         !.setItems = Append(@, <<name, text>>)]

\* SavedKeys as it would be if one save were made per run of the effect
SavedKeysOnce(store, keys) ==
    IF keys = {} THEN {} ELSE {CHOOSE k \in keys : TRUE}

\* the keys of `for (const key in initialState)` at which saveToStorage() is
\* called: the call stands outside the `if (key in store)` of the loop body
SavedKeys(store, keys) == keys

\* saveToStorage as it would be without the try statement
saveToStorageUncaught(store, name, storage) ==
    [threw |-> storage.fault # "none",
     storage |-> SetItem(storage, name, serialize(getStateSnapshot(store, FALSE)))]

\* try { window.localStorage.setItem(name, serialize(store.getStateSnapshot(...))) }
\* catch { console.error(...) }: whether a throw leaves the function, and the
\* storage after it; a throw of setItem leaves the entry as it was
saveToStorage(store, name, storage) ==
    [threw |-> FALSE,
     storage |-> SetItem(storage, name, serialize(getStateSnapshot(store, FALSE)))]

\* the body of the effect: one saveToStorage per key of the initialState the
\* plugin computed; a throw ends the loop
RECURSIVE effectBody(_, _, _, _)
effectBody(store, name, keys, storage) ==
    IF keys = {} THEN [threw |-> FALSE, storage |-> storage]
    ELSE LET key == CHOOSE k \in keys : TRUE
             saved == saveToStorage(store, name, storage)
         IN  IF saved.threw THEN saved
             ELSE effectBody(store, name, keys \ {key}, saved.storage)

\* the cells a run of the effect reads, which are the cells whose change
\* runs it again: store[key] for its keys, and every cell through the snapshot
EffectReads(store, eff) ==
    IF eff.keys = {} THEN {} ELSE DOMAIN store.cells

\* every effect of the store that reads cell `key` runs again, oldest first;
\* a throw of one is thrown again once all have run
RECURSIVE RunEffects(_, _, _, _)
RunEffects(store, key, i, storage) ==
    IF i > Len(store.effects) THEN [threw |-> FALSE, storage |-> storage]
    ELSE LET eff == store.effects[i]
             ran == IF key \in EffectReads(store, eff)
                    THEN effectBody(store, eff.name, SavedKeys(store, eff.keys),
                                    storage)
                    ELSE [threw |-> FALSE, storage |-> storage]
             rest == RunEffects(store, key, i + 1, ran.storage)
         IN  [threw |-> ran.threw \/ rest.threw, storage |-> rest.storage]

\* MarkStale as it would be if a write did not notify the computed signals
MarkStaleNever(derived, key) == derived

\* a computed signal is outdated once a cell it read has been written
MarkStale(derived, key) ==
    [i \in DOMAIN derived |->
        IF key \in DerivedReads(derived[i].key)
        THEN [derived[i] EXCEPT !.stale = TRUE]
        ELSE derived[i]]

\* signal.value = v: nothing happens when v is the current value; otherwise
\* the value is set, dependents are notified and the effects run
SignalWrite(store, storage, key, v) ==
    IF store.cells[key] = v
    THEN [store |-> store, storage |-> storage, threw |-> FALSE]
    ELSE LET written == [store EXCEPT !.cells[key] = v,
                                      !.derived = MarkStale(@, key)]
             ran == RunEffects(written, key, 1, storage)
         IN  [store |-> written, storage |-> ran.storage, threw |-> ran.threw]

\* the writes of an action function, in order; a write that throws ends them
RECURSIVE RunWrites(_, _, _)
RunWrites(store, storage, writes) ==
    IF writes = <<>> THEN [store |-> store, storage |-> storage, threw |-> FALSE]
    ELSE LET w == SignalWrite(store, storage, Head(writes)[1], Head(writes)[2])
         IN  IF w.threw THEN w
             ELSE RunWrites(w.store, w.storage, Tail(writes))

-----------------------------------------------------------------------------
(* Actions of a config and their binding *)

\* the action functions of config.actions, on the values of the cell set they
\* are given: the writes they perform in order, what they return, and whether
\* they throw (a TypeError, on a cell that does not exist)
\*   increment: (cells, n) => { cells.count.value += n; return cells.count.value }
\*   setPair:   (cells, a, b) => { cells.count.value = a; cells.total.value = b;
\*                                 return a + b }
ActionFn(name, cellValues, args) ==
    IF name = "increment"
    THEN IF "count" \notin DOMAIN cellValues
         THEN [writes |-> <<>>, result |-> Undefined, threw |-> TRUE]
         ELSE [writes |-> <<<<"count", cellValues["count"] + args[1]>>>>,
               result |-> cellValues["count"] + args[1], threw |-> FALSE]
    ELSE IF "count" \notin DOMAIN cellValues
         THEN [writes |-> <<>>, result |-> Undefined, threw |-> TRUE]
         ELSE IF "total" \notin DOMAIN cellValues
         THEN [writes |-> <<<<"count", args[1]>>>>, result |-> Undefined, threw |-> TRUE]
         ELSE [writes |-> <<<<"count", args[1]>>, <<"total", args[2]>>>>,
               result |-> args[1] + args[2], threw |-> FALSE]

\* the argument lists an action may be invoked with
ActionArgs(name) ==
    IF name = "increment" THEN {<<n>> : n \in Values}
    ELSE {<<a, b>> : a \in Values, b \in Values}

\* the cell values after a list of writes
RECURSIVE ApplyWrites(_, _)
ApplyWrites(cellValues, writes) ==
    IF writes = <<>> THEN cellValues
    ELSE ApplyWrites([cellValues EXCEPT ![Head(writes)[1]] = Head(writes)[2]],
                     Tail(writes))

\* BoundActionCalls as it would be if the arguments were forwarded in reverse
BoundActionCallsReversed(args) == <<[i \in DOMAIN args |-> args[Len(args) + 1 - i]]>>

\* the calls the bound action makes to the configured function: one, with the
\* caller's arguments in order after the cell set
BoundActionCalls(args) == <<args>>

\* what the bound action returns to its caller: its body has no return
BoundActionResult(rawResult) == Undefined

\* BoundActionThrow as it would be if the bound action undid the writes of a
\* function that throws
BoundActionThrowRollback(before, after, error) ==
    [store |-> IF error # Undefined THEN before ELSE after, error |-> error]

\* the store the bound action leaves and the error its caller catches, from
\* the store before the call, the store once the function has run and what
\* the function threw: the call stands in no try block
BoundActionThrow(before, after, error) == [store |-> after, error |-> error]

\* the calls are made one after the other on the live cells, until one throws
RECURSIVE RunCalls(_, _, _, _, _)
RunCalls(store, storage, name, calls, last) ==
    IF calls = <<>> \/ last.threw
    THEN [store |-> store, storage |-> storage, last |-> last]
    ELSE LET r == ActionFn(name, store.cells, Head(calls))
             w == RunWrites(store, storage, r.writes)
         IN  RunCalls(w.store, w.storage, name, Tail(calls),
                      [writes |-> r.writes,
                       result |-> IF w.threw THEN Undefined ELSE r.result,
                       threw |-> w.threw \/ r.threw,
                       error |-> IF w.threw THEN StorageErr
                                 ELSE IF r.threw THEN TypeErr ELSE Undefined])

-----------------------------------------------------------------------------
(* localStoragePlugin *)

\* a post-creation hook is the list of its layers, outermost first: the layer
\* a localStoragePlugin call adds, then the hook it wrapped
UserHook == [kind |-> "user", name |-> "", merge |-> FALSE, keys |-> {}]
PersistHook(name, merge, keys) ==
    [kind |-> "persist", name |-> name, merge |-> merge, keys |-> keys]

\* GetItemCalls as it would be if the entry were fetched a second time
GetItemCallsTwice(name) == <<name, name>>

\* the window.localStorage.getItem calls of one localStoragePlugin call
GetItemCalls(name) == <<name>>

\* the body of the try block: getItem, then deserialize when the item is a
\* non-empty string: [threw, value]
ReadStored(name, storage) ==
    IF storage.fault = "denied" THEN [threw |-> TRUE, value |-> EmptyRecord]
    ELSE LET stored == storage.items[GetItemCalls(name)[1]]
         IN  IF stored.kind \in {"null", "empty"}
             THEN [threw |-> FALSE, value |-> EmptyRecord]
             ELSE deserialize(stored)

\* LoadStoredState as it would be without the try statement
LoadStoredStateUncaught(name, storage) ==
    [threw |-> ReadStored(name, storage).threw,
     storedState |-> ReadStored(name, storage).value]

\* let storedState = {}; try { ... } catch { console.error(...) }: whether a
\* throw leaves the statement, and storedState after it
LoadStoredState(name, storage) ==
    [threw |-> FALSE,
     storedState |-> IF ReadStored(name, storage).threw THEN EmptyRecord
                     ELSE ReadStored(name, storage).value]

\* MergeInitialState as it would be with the spread operands exchanged
MergeInitialStateBaseWins(initialState, storedState, merge) ==
    IF merge THEN Spread(storedState, initialState) ELSE storedState

\* MergeInitialState as it would be if the merge option were not consulted
MergeInitialStateAlways(initialState, storedState, merge) ==
    Spread(initialState, storedState)

\* merge ? { ...config.initialState, ...storedState } : { ...storedState }
MergeInitialState(initialState, storedState, merge) ==
    IF merge THEN Spread(initialState, storedState) ELSE storedState

\* localStoragePlugin as it would be if the returned hook called the hook of
\* the config passed in before registering the effect
localStoragePluginHookFirst(cfg, name, merge, storage) ==
    LET initialState ==
            MergeInitialState(cfg.initialState,
                              LoadStoredState(name, storage).storedState, merge)
    IN  [cfg EXCEPT !.initialState = initialState,
                    !.onStoreCreated =
                        @ \o <<PersistHook(name, merge, DOMAIN initialState)>>]

\* localStoragePlugin as it would be if the returned hook did not call the
\* hook of the config passed in
localStoragePluginClobbering(cfg, name, merge, storage) ==
    LET initialState ==
            MergeInitialState(cfg.initialState,
                              LoadStoredState(name, storage).storedState, merge)
    IN  [cfg EXCEPT !.initialState = initialState,
                    !.onStoreCreated =
                        <<PersistHook(name, merge, DOMAIN initialState)>>]

\* localStoragePlugin(cfg, { name, merge }) reading `storage`
localStoragePlugin(cfg, name, merge, storage) ==
    LET initialState ==
            MergeInitialState(cfg.initialState,
                              LoadStoredState(name, storage).storedState, merge)
    IN  [cfg EXCEPT !.initialState = initialState,
                    !.onStoreCreated =
                        <<PersistHook(name, merge, DOMAIN initialState)>> \o @]

\* what the layers of a hook do to a store, as the store's hookTrace lists it
EffectInstalled(name) == [kind |-> "effect", name |-> name]
UserHookCalled == [kind |-> "user", name |-> ""]

\* hook(store): a persistence layer registers its effect, whose first run is
\* immediate, and then calls the hook it wrapped; a user hook is just called
RECURSIVE newOnStoreCreated(_, _, _)
newOnStoreCreated(hook, store, storage) ==
    IF hook = <<>> THEN [store |-> store, storage |-> storage]
    ELSE IF Head(hook).kind = "persist"
    THEN LET installed ==
                 [store EXCEPT !.effects = Append(@, Head(hook)),
                               !.hookTrace = Append(@, EffectInstalled(Head(hook).name))]
             ran == effectBody(store, Head(hook).name,
                               SavedKeys(store, Head(hook).keys), storage)
         IN  IF ran.threw THEN [store |-> installed, storage |-> ran.storage]
             ELSE newOnStoreCreated(Tail(hook), installed, ran.storage)
    ELSE newOnStoreCreated(Tail(hook),
            [store EXCEPT !.hookRuns = @ + 1,
                          !.hookTrace = Append(@, UserHookCalled),
                          !.hookSaw = storage.items], storage)

\* the config, or the store built from it, went through localStoragePlugin
Persisted(cfg) ==
    cfg.onStoreCreated # <<>> /\ Head(cfg.onStoreCreated).kind = "persist"

\* the number of localStoragePlugin layers of a hook
RECURSIVE Layers(_)
Layers(hook) ==
    IF hook = <<>> THEN 0
    ELSE Layers(Tail(hook)) + (IF Head(hook).kind = "persist" THEN 1 ELSE 0)

-----------------------------------------------------------------------------
(* compose *)

\* config => localStoragePlugin(config, { name, merge })
Middleware(name, merge) == [name |-> name, merge |-> merge]

\* middlewares.reduce((acc, middleware) => middleware(acc), config) from
\* element i on: the resulting config and the elements called, in call order
RECURSIVE reduce(_, _, _, _)
reduce(middlewares, i, acc, storage) ==
    IF i > Len(middlewares) THEN [config |-> acc, calls |-> <<>>]
    ELSE LET middleware == middlewares[i]
             rest == reduce(middlewares, i + 1,
                            localStoragePlugin(acc, middleware.name,
                                               middleware.merge, storage),
                            storage)
         IN  [config |-> rest.config, calls |-> <<i>> \o rest.calls]

\* compose as it would be with reduceRight
composeRightToLeft(middlewares, cfg, storage) ==
    LET n == Len(middlewares)
        r == reduce([i \in 1..n |-> middlewares[n + 1 - i]], 1, cfg, storage)
    IN  [config |-> r.config, calls |-> [i \in 1..n |-> n + 1 - r.calls[i]]]

\* compose(...middlewares)(cfg)
compose(middlewares, cfg, storage) == reduce(middlewares, 1, cfg, storage)

\* whether compose(...)(cfg) returns the very object cfg: reduce returns its
\* initial value when the array is empty, and otherwise what the last
\* middleware returned, which for localStoragePlugin is a new object literal
ResultIsArgument(calls) == calls = <<>>

\* ArgumentAfter as it would be if the result were built by assigning to the
\* properties of the argument
ArgumentAfterAssigned(cfg, result) == result

\* the object a caller passed as `config`, once the call has returned: the
\* result is built by a spread into a new literal, the argument is only read
ArgumentAfter(cfg, result) == cfg

-----------------------------------------------------------------------------
(* Observations *)

NoCreate == [status |-> "none", errKey |-> "", withHook |-> FALSE, hookRuns |-> 0]
NoInvoke == [store |-> 0, name |-> "", args |-> <<>>, before |-> EmptyRecord,
             storage |-> <<>>, received |-> <<>>, rawResult |-> Undefined,
             result |-> Undefined, threw |-> FALSE, rawError |-> Undefined,
             error |-> Undefined]
NoRead == [kind |-> "none", store |-> 0, key |-> "", value |-> Undefined,
           withDerived |-> FALSE, snapshot |-> EmptyRecord]
NoTelemetry == [status |-> "none", prevSortBy |-> "", prevSortDirection |-> "",
                sent |-> <<>>]
NoConfig == [kind |-> "none", input |-> <<>>, inputAfter |-> <<>>,
             middlewares |-> <<>>, calls |-> <<>>, reads |-> <<>>,
             sameObject |-> FALSE, omitted |-> FALSE, storage |-> <<>>,
             threw |-> FALSE,
             output |-> <<>>]

-----------------------------------------------------------------------------
(* Operations *)

\* const store = createStore(config)
CreateStore(limit) ==
    /\ Len(stores) < limit
    /\ LET r == createStore(config)
       IN  /\ stores' = IF r.threw THEN stores
                        ELSE Append(stores, r.store)
           /\ created' = [status |-> IF r.threw THEN "threw" ELSE "returned",
                          errKey |-> r.errKey,
                          withHook |-> config.onStoreCreated # <<>>,
                          hookRuns |-> IF r.threw THEN 0 ELSE r.store.hookRuns]
    /\ lastInvoke' = NoInvoke
    /\ lastRead' = NoRead
    /\ localStorage' = Cleared(localStorage)
    /\ UNCHANGED <<telemetry, base, config, lastConfig>>

\* store.actions.<name>(...args)
InvokeAction(s, name, args) ==
    /\ name \in stores[s].actions
    /\ LET run == RunCalls(stores[s], Cleared(localStorage), name,
                           BoundActionCalls(args),
                           [writes |-> <<>>, result |-> Undefined, threw |-> FALSE,
                            error |-> Undefined])
           rawError == run.last.error
           out == BoundActionThrow(stores[s], run.store, rawError)
       IN  /\ \A k \in DOMAIN run.store.cells : run.store.cells[k] \in Values
           /\ stores' = [stores EXCEPT ![s] = out.store]
           /\ localStorage' = run.storage
           /\ lastInvoke' = [store |-> s, name |-> name, args |-> args,
                             before |-> stores[s].cells,
                             storage |-> Cleared(localStorage),
                             received |-> BoundActionCalls(args),
                             rawResult |-> run.last.result,
                             result |-> BoundActionResult(run.last.result),
                             threw |-> run.last.threw,
                             rawError |-> rawError,
                             error |-> out.error]
    /\ created' = NoCreate
    /\ lastRead' = NoRead
    /\ lastConfig' = NoConfig
    /\ UNCHANGED <<telemetry, base, config>>

\* store.<key>.value = v, on a reactive cell
WriteCell(s, key, v) ==
    /\ key \in DOMAIN stores[s].cells
    /\ stores[s].props[key] = "signal"
    /\ LET w == SignalWrite(stores[s], Cleared(localStorage), key, v)
       IN  /\ stores' = [stores EXCEPT ![s] = w.store]
           /\ localStorage' = w.storage
    /\ created' = NoCreate
    /\ lastInvoke' = NoInvoke
    /\ lastRead' = NoRead
    /\ lastConfig' = NoConfig
    /\ UNCHANGED <<telemetry, base, config>>

\* store.<key>.value, on a derived cell
ReadDerived(s, i) ==
    /\ i \in DOMAIN stores[s].derived
    /\ stores' = [stores EXCEPT ![s] = ComputedRead(stores[s], i)]
    /\ lastRead' = [NoRead EXCEPT !.kind = "derived", !.store = s,
                                  !.key = stores[s].derived[i].key,
                                  !.value = ComputedValue(stores[s], i)]
    /\ created' = NoCreate
    /\ lastInvoke' = NoInvoke
    /\ lastConfig' = NoConfig
    /\ localStorage' = Cleared(localStorage)
    /\ UNCHANGED <<telemetry, base, config>>

\* store.getStateSnapshot(opt)
TakeSnapshot(s, withDerived) ==
    /\ lastRead' = [NoRead EXCEPT !.kind = "snapshot", !.store = s,
                                  !.withDerived = withDerived,
                                  !.snapshot = getStateSnapshot(stores[s], withDerived)]
    /\ created' = NoCreate
    /\ lastInvoke' = NoInvoke
    /\ lastConfig' = NoConfig
    /\ localStorage' = Cleared(localStorage)
    /\ UNCHANGED <<telemetry, base, config, stores>>

\* const { merge = true } = options: the value when the option is left out
DefaultMerge == TRUE

\* a localStoragePlugin call on base (fresh) or on the current config; `merge`
\* is the value the destructuring of the options yields
PluginCall(name, merge, omitted, fresh) ==
    LET cfg == IF fresh THEN base ELSE config
        result == localStoragePlugin(cfg, name, merge, localStorage)
        threw == LoadStoredState(name, localStorage).threw
    IN  /\ Layers(cfg.onStoreCreated) < MaxLayers
        /\ config' = IF threw THEN config ELSE result
        /\ base' = IF fresh THEN ArgumentAfter(cfg, result) ELSE base
        /\ lastConfig' = [kind |-> "plugin", input |-> cfg,
                          inputAfter |-> ArgumentAfter(cfg, result),
                          middlewares |-> <<Middleware(name, merge)>>,
                          calls |-> <<1>>, reads |-> GetItemCalls(name),
                          sameObject |-> FALSE,
                          omitted |-> omitted,
                          storage |-> localStorage, threw |-> threw,
                          output |-> result]
        /\ created' = NoCreate
        /\ lastInvoke' = NoInvoke
        /\ lastRead' = NoRead
        /\ localStorage' = Cleared(localStorage)
        /\ UNCHANGED <<telemetry, stores>>

\* config = localStoragePlugin(config or base, { name, merge })
UsePlugin(name, merge, fresh) == PluginCall(name, merge, FALSE, fresh)

\* config = localStoragePlugin(config or base, { name })
UsePluginDefault(name, fresh) == PluginCall(name, DefaultMerge, TRUE, fresh)

\* config = compose(...middlewares)(base)
UseCompose(middlewares) ==
    LET r == compose(middlewares, base, localStorage)
        first == IF middlewares = <<>> THEN base
                 ELSE ArgumentAfter(base,
                          localStoragePlugin(base, middlewares[1].name,
                                             middlewares[1].merge, localStorage))
    IN  /\ Layers(base.onStoreCreated) = 0
        /\ config' = r.config
        /\ base' = first
        /\ lastConfig' = [kind |-> "compose", input |-> base,
                          inputAfter |-> first,
                          middlewares |-> middlewares, calls |-> r.calls,
                          sameObject |-> ResultIsArgument(r.calls),
                          reads |-> [i \in DOMAIN r.calls |->
                                        GetItemCalls(middlewares[r.calls[i]].name)[1]],
                          omitted |-> FALSE,
                          storage |-> localStorage, threw |-> FALSE,
                          output |-> r.config]
        /\ created' = NoCreate
        /\ lastInvoke' = NoInvoke
        /\ lastRead' = NoRead
        /\ localStorage' = Cleared(localStorage)
        /\ UNCHANGED <<telemetry, stores>>

\* a caller runs the hook of the store's config on the store
InvokeHook(s) ==
    /\ stores[s].onStoreCreated # <<>>
    /\ stores[s].effects = <<>>
    /\ stores[s].hookRuns = 0
    /\ LET r == newOnStoreCreated(stores[s].onStoreCreated, stores[s],
                                  Cleared(localStorage))
       IN  /\ stores' = [stores EXCEPT ![s] = r.store]
           /\ localStorage' = r.storage
    /\ created' = NoCreate
    /\ lastInvoke' = NoInvoke
    /\ lastRead' = NoRead
    /\ UNCHANGED <<telemetry, base, config, lastConfig>>

\* another script of the page, or another tab, sets the entry `name`
StorageSet(name, item) ==
    /\ localStorage.items[name] # item
    /\ localStorage' = [localStorage EXCEPT !.items[name] = item]
    /\ UNCHANGED <<telemetry, base, config, stores, created, lastInvoke, lastRead, lastConfig>>

\* the storage starts or stops throwing (access denied, quota exhausted)
StorageFault(fault) ==
    /\ localStorage.fault # fault
    /\ localStorage' = [localStorage EXCEPT !.fault = fault]
    /\ UNCHANGED <<telemetry, base, config, stores, created, lastInvoke, lastRead, lastConfig>>

-----------------------------------------------------------------------------
(* productListStore and initializeTelemetry *)

\* null is written "null"; a product list is the sequence of its ids
ProductListConfig ==
    [initialState |-> [products |-> <<>>, sortBy |-> "name",
                       sortDirection |-> "asc", selectedProductId |-> "null"],
     derived |-> <<"sortedProducts", "selectedProduct">>,
     actions |-> {"setProducts", "setSortBy", "setSortDirection",
                  "setSelectedProductId"},
     onStoreCreated |-> <<>>]

productListStore == createStore(ProductListConfig).store

\* the cell an action of productListStore assigns its argument to
ProductListCell(action) ==
    CASE action = "setProducts" -> "products"
      [] action = "setSortBy" -> "sortBy"
      [] action = "setSortDirection" -> "sortDirection"
      [] action = "setSelectedProductId" -> "selectedProductId"

\* the arguments the actions are called with
ProductListArgs(action) ==
    CASE action = "setProducts" -> {<<>>, <<"p1">>}
      [] action = "setSortBy" -> {"name", "price", "qty"}
      [] action = "setSortDirection" -> {"asc", "desc"}
      [] action = "setSelectedProductId" -> {"null", "p1"}

\* the cells the telemetry effect reads, hence is subscribed to
TelemetryReads == {"sortBy", "sortDirection"}

SortChanged(sortBy, sortDirection, prevSortBy, prevSortDirection) ==
    [event |-> "SORT_CHANGED", sortBy |-> sortBy, sortDirection |-> sortDirection,
     prevSortBy |-> prevSortBy, prevSortDirection |-> prevSortDirection]

\* the effect, were it to keep the pair taken at initialization
TelemetryEffectKeepsPrev(t, cells) ==
    IF cells.sortBy # t.prevSortBy \/ cells.sortDirection # t.prevSortDirection
    THEN [t EXCEPT !.sent = Append(@, SortChanged(cells.sortBy, cells.sortDirection,
                                                   t.prevSortBy, t.prevSortDirection))]
    ELSE t

\* one run of the effect of initializeTelemetry
TelemetryEffect(t, cells) ==
    IF cells.sortBy # t.prevSortBy \/ cells.sortDirection # t.prevSortDirection
    THEN [t EXCEPT !.sent = Append(@, SortChanged(cells.sortBy, cells.sortDirection,
                                                   t.prevSortBy, t.prevSortDirection)),
                   !.prevSortBy = cells.sortBy,
                   !.prevSortDirection = cells.sortDirection]
    ELSE t

\* an effect that is not disposed re-runs when a cell it read has changed
NotifyTelemetry(t, before, after) ==
    LET quiet == [t EXCEPT !.sent = <<>>]
    IN  IF t.status = "active" /\ \E k \in TelemetryReads : before[k] # after[k]
        THEN TelemetryEffect(quiet, after)
        ELSE quiet

\* productListStore.actions[action](arg)
ProductListAction(action, arg) ==
    /\ stores # <<>>
    /\ action \in stores[1].actions
    /\ LET w == SignalWrite(stores[1], Cleared(localStorage),
                            ProductListCell(action), arg)
       IN  /\ stores' = [stores EXCEPT ![1] = w.store]
           /\ localStorage' = w.storage
           /\ telemetry' = NotifyTelemetry(telemetry, stores[1].cells, w.store.cells)
    /\ UNCHANGED <<base, config, created, lastInvoke, lastRead, lastConfig>>

\* initializeTelemetry(): the closure takes the current pair and the effect
\* runs once at registration
initializeTelemetry ==
    /\ stores # <<>>
    /\ telemetry.status # "active"
    /\ telemetry' = TelemetryEffect([status |-> "active",
                                     prevSortBy |-> stores[1].cells.sortBy,
                                     prevSortDirection |-> stores[1].cells.sortDirection,
                                     sent |-> <<>>],
                                    stores[1].cells)
    /\ localStorage' = Cleared(localStorage)
    /\ UNCHANGED <<base, config, stores, created, lastInvoke, lastRead, lastConfig>>

\* the function initializeTelemetry returned
dispose ==
    /\ telemetry.status = "active"
    /\ telemetry' = [telemetry EXCEPT !.status = "disposed", !.sent = <<>>]
    /\ localStorage' = Cleared(localStorage)
    /\ UNCHANGED <<base, config, stores, created, lastInvoke, lastRead, lastConfig>>

-----------------------------------------------------------------------------
(* Specifications *)

\* derived maps: the keys in declaration order, no key twice
DerivedMaps ==
    {<<>>} \cup {<<a>> : a \in DerivedNames}
           \cup {<<"doubled", "actions">>, <<"doubled", "count">>,
                 <<"toString", "count">>, <<"count", "toString">>}

Schemas == {{}, {"count"}, {"total"}, {"count", "total"}, {"count", "actions"}}

\* the value each field is configured with
InitialValue(k) == IF k = "count" THEN 0 ELSE 1

InitialStates == {[k \in S |-> InitialValue(k)] : S \in Schemas}

\* configs with actions, and configs with a post-creation hook
BaseConfigs ==
    [initialState : InitialStates, derived : DerivedMaps,
     actions : {ActionNames}, onStoreCreated : {<<>>}]
    \cup
    [initialState : InitialStates, derived : DerivedMaps,
     actions : {{}}, onStoreCreated : {<<UserHook>>}]

\* the store library alone: one config, one store
Init ==
    /\ base \in BaseConfigs
    /\ config = base
    /\ localStorage = Storage([n \in StorageNames |-> NoItem])
    /\ stores = <<>>
    /\ created = NoCreate
    /\ lastInvoke = NoInvoke
    /\ lastRead = NoRead
    /\ lastConfig = NoConfig
    /\ telemetry = NoTelemetry

Next ==
    \/ CreateStore(1)
    \/ \E s \in DOMAIN stores, name \in ActionNames :
           \E args \in ActionArgs(name) : InvokeAction(s, name, args)
    \/ \E s \in DOMAIN stores, key \in FieldNames, v \in Values : WriteCell(s, key, v)
    \/ \E s \in DOMAIN stores, i \in 1..2 : ReadDerived(s, i)
    \/ \E s \in DOMAIN stores, withDerived \in BOOLEAN : TakeSnapshot(s, withDerived)

Spec == Init /\ [][Next]_vars

\* the application with the persistence middleware: the config goes through
\* localStoragePlugin before createStore
PersistConfigs ==
    [initialState : {[count |-> 0, total |-> 1]},
     derived : {<<>>, <<"doubled">>},
     actions : {ActionNames}, onStoreCreated : {<<>>, <<UserHook>>}]

\* what window.localStorage may hold when the application starts
InitialItems == {NoItem, JsonText(<<<<"count", 1>>>>), Garbage}

InitPersist ==
    /\ base \in PersistConfigs
    /\ config = base
    /\ \E item \in InitialItems :
           localStorage = Storage([n \in StorageNames |->
                                      IF n = "app" THEN item ELSE NoItem])
    /\ stores = <<>>
    /\ created = NoCreate
    /\ lastInvoke = NoInvoke
    /\ lastRead = NoRead
    /\ lastConfig = NoConfig
    /\ telemetry = NoTelemetry

NextPersist ==
    \/ \E merge \in BOOLEAN, fresh \in BOOLEAN : UsePlugin("app", merge, fresh)
    \/ CreateStore(1)
    \/ \E s \in DOMAIN stores, n \in Values : InvokeAction(s, "increment", <<n>>)
    \/ \E s \in DOMAIN stores : InvokeHook(s)

SpecPersist == InitPersist /\ [][NextPersist]_vars

\* two stores of one application persisted under the same storage key: store
\* A is built, and store B from a fresh localStoragePlugin call later
InitShared ==
    /\ base \in PersistConfigs
    /\ config = base
    /\ localStorage = Storage([n \in StorageNames |-> NoItem])
    /\ stores = <<>>
    /\ created = NoCreate
    /\ lastInvoke = NoInvoke
    /\ lastRead = NoRead
    /\ lastConfig = NoConfig
    /\ telemetry = NoTelemetry

NextShared ==
    \/ \E merge \in BOOLEAN : UsePlugin("app", merge, TRUE)
    \/ Persisted(config) /\ CreateStore(2)
    \/ \E s \in DOMAIN stores, n \in Values : InvokeAction(s, "increment", <<n>>)
    \/ \E s \in DOMAIN stores : InvokeHook(s)

SpecShared == InitShared /\ [][NextShared]_vars

\* hydration: localStoragePlugin called on whatever the storage holds, while
\* other scripts change the entry and the storage may deny access
HydrateConfigs ==
    [initialState : {[count |-> 0], [count |-> 0, total |-> 1]},
     derived : {<<"doubled">>},
     actions : {ActionNames}, onStoreCreated : {<<>>}]

StoredItems ==
    {NoItem, EmptyText, Garbage, JsonText(<<<<"count", 1>>>>),
     JsonText(<<<<"count", 2>>, <<"total", 0>>>>),
     JsonText(<<<<"count", 1>>, <<"doubled", 2>>>>)}

InitHydrate ==
    /\ base \in HydrateConfigs
    /\ config = base
    /\ \E item \in StoredItems :
           localStorage = Storage([n \in StorageNames |->
                                      IF n = "app" THEN item ELSE NoItem])
    /\ stores = <<>>
    /\ created = NoCreate
    /\ lastInvoke = NoInvoke
    /\ lastRead = NoRead
    /\ lastConfig = NoConfig
    /\ telemetry = NoTelemetry

NextHydrate ==
    \/ \E merge \in BOOLEAN : UsePlugin("app", merge, TRUE)
    \/ UsePluginDefault("app", TRUE)
    \/ CreateStore(1)
    \/ \E item \in StoredItems : StorageSet("app", item)
    \/ \E fault \in {"none", "denied"} : StorageFault(fault)

SpecHydrate == InitHydrate /\ [][NextHydrate]_vars

\* middleware composition: the config goes through compose(...)(base) or
\* through one localStoragePlugin call, and the hook is run on the store
ComposeConfigs ==
    [initialState : {[count |-> 0, total |-> 1]}, derived : {<<"doubled">>},
     actions : {ActionNames}, onStoreCreated : {<<>>, <<UserHook>>}]

Middlewares == {Middleware(name, merge) : name \in StorageNames, merge \in BOOLEAN}

MiddlewareLists ==
    UNION {[1..n -> Middlewares] : n \in 0..MaxLayers}

InitCompose ==
    /\ base \in ComposeConfigs
    /\ config = base
    /\ \E item \in {NoItem, JsonText(<<<<"count", 1>>>>)} :
           localStorage = Storage([n \in StorageNames |->
                                      IF n = "app" THEN item ELSE NoItem])
    /\ stores = <<>>
    /\ created = NoCreate
    /\ lastInvoke = NoInvoke
    /\ lastRead = NoRead
    /\ lastConfig = NoConfig
    /\ telemetry = NoTelemetry

\* the config is settled before the store is built
NextCompose ==
    \/ \E middlewares \in MiddlewareLists : stores = <<>> /\ UseCompose(middlewares)
    \/ \E name \in StorageNames, merge \in BOOLEAN :
           stores = <<>> /\ UsePlugin(name, merge, TRUE)
    \/ CreateStore(1)
    \/ \E s \in DOMAIN stores : InvokeHook(s)

SpecCompose == InitCompose /\ [][NextCompose]_vars

\* a persisted store on a storage that may refuse writes: the hook has been
\* run on the store, and the storage starts and stops throwing
InitFault ==
    /\ base \in ComposeConfigs
    /\ config = base
    /\ localStorage = Storage([n \in StorageNames |-> NoItem])
    /\ stores = <<>>
    /\ created = NoCreate
    /\ lastInvoke = NoInvoke
    /\ lastRead = NoRead
    /\ lastConfig = NoConfig
    /\ telemetry = NoTelemetry

NextFault ==
    \/ stores = <<>> /\ UsePluginDefault("app", TRUE)
    \/ CreateStore(1)
    \/ \E s \in DOMAIN stores : InvokeHook(s)
    \/ \E s \in DOMAIN stores, n \in Values : InvokeAction(s, "increment", <<n>>)
    \/ \E s \in DOMAIN stores, v \in Values : WriteCell(s, "total", v)
    \/ \E fault \in {"none", "full", "denied"} : StorageFault(fault)

SpecFault == InitFault /\ [][NextFault]_vars

\* the product list with telemetry switched on and off
InitTelemetry ==
    /\ base = ProductListConfig
    /\ config = base
    /\ localStorage = Storage([n \in StorageNames |-> NoItem])
    /\ stores = <<productListStore>>
    /\ created = NoCreate
    /\ lastInvoke = NoInvoke
    /\ lastRead = NoRead
    /\ lastConfig = NoConfig
    /\ telemetry = NoTelemetry

NextTelemetry ==
    \/ initializeTelemetry
    \/ dispose
    \/ \E arg \in ProductListArgs("setSortBy") : ProductListAction("setSortBy", arg)
    \/ \E arg \in ProductListArgs("setSortDirection") :
           ProductListAction("setSortDirection", arg)
    \/ \E arg \in ProductListArgs("setSelectedProductId") :
           ProductListAction("setSelectedProductId", arg)
    \/ \E arg \in ProductListArgs("setProducts") : ProductListAction("setProducts", arg)

SpecTelemetry == InitTelemetry /\ [][NextTelemetry]_vars

-----------------------------------------------------------------------------
(* Properties of createStore, checked under Spec *)

DerivedKeys(store) == {store.derived[i].key : i \in DOMAIN store.derived}

\* C1: in every store createStore has returned, after any sequence of bound
\* actions and direct cell writes, a read of a derived cell returns its
\* derivation function applied to the current values of the reactive cells,
\* never a value computed from a superseded cell value.
C1_DerivedIsCurrent ==
    /\ \A s \in DOMAIN stores : \A i \in DOMAIN stores[s].derived :
          ComputedValue(stores[s], i) = DerivedFn(stores[s].derived[i].key, stores[s].cells)
    /\ lastRead.kind = "derived" =>
          lastRead.value = DerivedFn(lastRead.key, stores[lastRead.store].cells)

\* a derived cell read as 2 * count after count has moved off its initial value
C1_Witness ==
    /\ lastRead.kind = "derived"
    /\ lastRead.key = "doubled"
    /\ "count" \in DOMAIN stores[lastRead.store].cells
    /\ stores[lastRead.store].cells["count"] # stores[lastRead.store].initialState["count"]
    /\ lastRead.value = 2 * stores[lastRead.store].cells["count"]
    /\ lastRead.value > 0

\* C2: getStateSnapshot({ withDerived: true }) returns the state fields and all
\* derived fields, each with its current value.
C2_SnapshotWithDerived ==
    (lastRead.kind = "snapshot" /\ lastRead.withDerived) =>
        LET st == stores[lastRead.store]
        IN  /\ DOMAIN lastRead.snapshot = DOMAIN st.initialState \cup DerivedKeys(st)
            /\ \A k \in DOMAIN st.cells : lastRead.snapshot[k] = st.cells[k]
            /\ \A i \in DOMAIN st.derived :
                  lastRead.snapshot[st.derived[i].key] = ComputedValue(st, i)

\* C3: createStore calls config.onStoreCreated, when present, exactly once,
\* with the store it has built, before it returns.
C3_HookRunsOnce ==
    (created.status = "returned" /\ created.withHook) => created.hookRuns = 1

\* C6: createStore with a derived key equal to an initialState key throws an
\* error that names the colliding key, and returns no store, wherever the
\* colliding key stands in the derived map.
C6_CollisionThrows ==
    LET colliding == {config.derived[i] : i \in DOMAIN config.derived}
                         \cap DOMAIN config.initialState
    IN  (created.status # "none" /\ colliding # {}) =>
            /\ created.status = "threw"
            /\ created.errKey \in colliding
            /\ stores = <<>>

\* C7: a bound action calls the configured function once with the cell set
\* and then the caller's arguments in order, and the writes it performs are
\* what the next read of the cell, of a derived cell and of a snapshot see.
C7_ActionWritesVisible ==
    lastInvoke.store # 0 =>
        LET st == stores[lastInvoke.store]
            raw == ActionFn(lastInvoke.name, lastInvoke.before, lastInvoke.args)
            expected == ApplyWrites(lastInvoke.before, raw.writes)
        IN  /\ lastInvoke.received = <<lastInvoke.args>>
            /\ \A w \in DOMAIN raw.writes :
                  StoreValue(st, raw.writes[w][1]) = expected[raw.writes[w][1]]
            /\ \A i \in DOMAIN st.derived :
                  ComputedValue(st, i) = DerivedFn(st.derived[i].key, expected)
            /\ getStateSnapshot(st, FALSE) = expected

\* setPair(a, b) with a # b has changed both cells of a store with a derived cell
C7_Witness ==
    /\ lastInvoke.store # 0
    /\ lastInvoke.name = "setPair"
    /\ ~lastInvoke.threw
    /\ lastInvoke.args[1] # lastInvoke.args[2]
    /\ stores[lastInvoke.store].derived # <<>>
    /\ stores[lastInvoke.store].cells["count"] # lastInvoke.before["count"]
    /\ stores[lastInvoke.store].cells["total"] # lastInvoke.before["total"]

\* C8: a bound action returns to its caller what the configured action
\* function returned.
C8_ActionResultReturned ==
    (lastInvoke.store # 0 /\ ~lastInvoke.threw) =>
        lastInvoke.result = lastInvoke.rawResult

\* C9: getStateSnapshot() without options returns exactly the state fields,
\* each with the current value of its cell, and no derived key, also for a
\* store with derivations and after actions.
C9_SnapshotStateOnly ==
    (lastRead.kind = "snapshot" /\ ~lastRead.withDerived) =>
        LET st == stores[lastRead.store]
        IN  /\ DOMAIN lastRead.snapshot = DOMAIN st.initialState
            /\ DOMAIN lastRead.snapshot \cap DerivedKeys(st) = {}
            /\ \A k \in DOMAIN lastRead.snapshot : lastRead.snapshot[k] = st.cells[k]

\* a snapshot without options of a store with a derived cell whose state has changed
C9_Witness ==
    /\ lastRead.kind = "snapshot"
    /\ ~lastRead.withDerived
    /\ stores[lastRead.store].derived # <<>>
    /\ lastRead.snapshot # stores[lastRead.store].initialState
    /\ Cardinality(DOMAIN lastRead.snapshot) = 2

\* C10: createStore creates one reactive cell per initialState field, exposes
\* it on the store under the field's name and initializes it to the configured
\* value.
C10_CellPerField ==
    created.status = "returned" =>
        LET st == stores[Len(stores)]
        IN  /\ Cardinality(DOMAIN st.cells) = Cardinality(DOMAIN config.initialState)
            /\ \A k \in DOMAIN config.initialState :
                  StoreValue(st, k) = config.initialState[k]

\* C17: when the action function throws after some writes, the bound action
\* throws the same error to its caller and the writes made before the throw
\* stand: the cells, the derived cells and the snapshot show them.
C17_ThrowKeepsWrites ==
    (lastInvoke.store # 0 /\ lastInvoke.rawError # Undefined) =>
        LET st == stores[lastInvoke.store]
            raw == ActionFn(lastInvoke.name, lastInvoke.before, lastInvoke.args)
            expected == ApplyWrites(lastInvoke.before, raw.writes)
        IN  /\ lastInvoke.error = lastInvoke.rawError
            /\ st.cells = expected
            /\ \A i \in DOMAIN st.derived :
                  ComputedValue(st, i) = DerivedFn(st.derived[i].key, expected)
            /\ getStateSnapshot(st, FALSE) = expected

\* setPair on a store without a total cell: count is written, then the
\* function throws, and the derived cell follows the new count
C17_Witness ==
    /\ lastInvoke.store # 0
    /\ lastInvoke.name = "setPair"
    /\ lastInvoke.error = TypeErr
    /\ "count" \in DOMAIN stores[lastInvoke.store].cells
    /\ stores[lastInvoke.store].cells["count"] = lastInvoke.args[1]
    /\ stores[lastInvoke.store].cells["count"] # lastInvoke.before["count"]
    /\ DerivedKeys(stores[lastInvoke.store]) = {"doubled"}
    /\ ComputedValue(stores[lastInvoke.store], 1) = 2 * lastInvoke.args[1]

\* C18: the cell set an action function or a derivation function receives
\* has one reactive cell per state field and no derived cell, and each of its
\* cells is the cell the store exposes under the same name.
C18_CellSetIsStoreCells ==
    lastInvoke.store # 0 =>
        LET st == stores[lastInvoke.store]
        IN  /\ DOMAIN lastInvoke.before = DOMAIN st.initialState
            /\ DOMAIN lastInvoke.before \cap DerivedKeys(st) = {}
            /\ \A k \in DOMAIN lastInvoke.before : st.props[k] = "signal"

\* C24: createStore throws only on a genuine collision: when no derived key
\* is an initialState key it returns a store, whatever the derived keys are
\* named.
C24_ThrowsOnlyOnCollision ==
    (created.status # "none"
        /\ SeqRange(config.derived) \cap DOMAIN config.initialState = {}) =>
        created.status = "returned"

\* C25: the returned store exposes the reactive cell of every state field
\* under the field's name and the derived cell of every derivation under its
\* name, store.actions is the bound action map and store.getStateSnapshot
\* the snapshot function, whatever the fields and derivations are named.
C25_StoreExposesEveryCell ==
    created.status = "returned" =>
        LET st == stores[Len(stores)]
        IN  /\ \A k \in DOMAIN st.initialState : st.props[k] = "signal"
            /\ \A d \in DerivedKeys(st) : st.props[d] = "computed"
            /\ st.props["actions"] = "actionMap"
            /\ st.props["getStateSnapshot"] = "function"

-----------------------------------------------------------------------------
(* Properties of the persistence middleware, checked under SpecPersist *)

\* C4: for a store built from a localStoragePlugin config, once a bound action
\* that changed a cell has returned, the storage entry under `name` is the
\* serialized state-only snapshot of the store.
C4_StorageFollowsState ==
    (lastInvoke.store # 0 /\ Persisted(stores[lastInvoke.store])
        /\ stores[lastInvoke.store].cells # lastInvoke.before) =>
        LET st == stores[lastInvoke.store]
        IN  localStorage.items[Head(st.onStoreCreated).name] =
                serialize([k \in DOMAIN st.initialState |-> st.cells[k]])

\* C5: store A is built from localStoragePlugin(config, {name, merge}) and its
\* state changed; store B, built from a fresh localStoragePlugin(config, {name,
\* merge}), starts from A's last snapshot (overlaid on the base initialState
\* when merge is true).
C5_RoundTrip ==
    (created.status = "returned" /\ Len(stores) = 2
        /\ Persisted(stores[1]) /\ Persisted(stores[2])
        /\ Layers(stores[2].onStoreCreated) = 1
        /\ Head(stores[1].onStoreCreated).name = Head(stores[2].onStoreCreated).name
        /\ Head(stores[1].onStoreCreated).merge = Head(stores[2].onStoreCreated).merge
        /\ stores[1].cells # stores[1].initialState) =>
        stores[2].cells =
            IF Head(stores[2].onStoreCreated).merge
            THEN Spread(base.initialState, stores[1].cells)
            ELSE stores[1].cells

\* the setItem calls of one run of each effect from the i-th on, for a store
\* with these cells: one call per key of the effect, all with the same text
RECURSIVE ExpectedSaves(_, _, _)
ExpectedSaves(effects, i, cells) ==
    IF i > Len(effects) THEN <<>>
    ELSE [j \in 1..Cardinality(effects[i].keys) |->
             <<effects[i].name, serialize(cells)>>]
         \o ExpectedSaves(effects, i + 1, cells)

\* a step of the one store: when the hook is run on it, or a cell changes,
\* every installed effect runs once and saves once per key; any other step
\* saves nothing
SavesOfStep ==
    (Len(stores) = 1 /\ Len(stores') = 1) =>
        LET ran == \/ stores[1].hookTrace = <<>> /\ stores'[1].hookTrace # <<>>
                   \/ stores'[1].cells # stores[1].cells
        IN  localStorage'.setItems =
                IF ran THEN ExpectedSaves(stores'[1].effects, 1, stores'[1].cells)
                ELSE <<>>

\* C21: a run of the persistence effect calls saveToStorage once per key of
\* the initialState the plugin computed, whether or not the key's value
\* changed, and not at all when that record has no key; every call of the
\* run writes the same serialized state-only snapshot.
C21_OneSavePerKey == [][SavesOfStep]_vars

\* increment has changed count alone on a store with one effect over two
\* keys: two setItem calls with the same text
C21_Witness ==
    /\ lastInvoke.store # 0
    /\ Len(stores[lastInvoke.store].effects) = 1
    /\ Cardinality(stores[lastInvoke.store].effects[1].keys) = 2
    /\ stores[lastInvoke.store].cells["total"] = lastInvoke.before["total"]
    /\ Len(localStorage.setItems) = 2
    /\ localStorage.setItems[1] = localStorage.setItems[2]
    /\ localStorage.setItems[1] = <<"app", serialize(stores[lastInvoke.store].cells)>>

\* the step in which the hook of the store's config is run on the store: the
\* cells are not touched, every layer with a key has saved the snapshot, and
\* the hook of the base config, when there is one, found the entries so
FirstRunOfStep ==
    (Len(stores) = 1 /\ Len(stores') = 1
        /\ stores[1].hookTrace = <<>> /\ stores'[1].hookTrace # <<>>) =>
        LET hook == stores[1].onStoreCreated
            saved == {i \in DOMAIN hook :
                         hook[i].kind = "persist" /\ hook[i].keys # {}}
        IN  /\ stores'[1].cells = stores[1].cells
            /\ \A i \in saved :
                  /\ localStorage'.items[hook[i].name] = serialize(stores[1].cells)
                  /\ stores'[1].hookRuns = 1 =>
                        stores'[1].hookSaw[hook[i].name] = serialize(stores[1].cells)

\* C26: when the hook made by localStoragePlugin is run on a store whose
\* initialState has a key, the effect runs at once: the entry under `name`
\* is the serialized state-only snapshot of the store before the hook of the
\* input config is called, and so before any later action.
C26_EffectRunsImmediately == [][FirstRunOfStep]_vars

\* the hook has been run on a store no action has touched: the user hook
\* found the initial snapshot stored under "app"
C26_Witness ==
    /\ Len(stores) = 1
    /\ Persisted(stores[1])
    /\ stores[1].hookRuns = 1
    /\ stores[1].cells = stores[1].initialState
    /\ stores[1].cells = [count |-> 0, total |-> 1]
    /\ stores[1].hookSaw["app"] = serialize(stores[1].initialState)
    /\ localStorage.items["app"] = serialize(stores[1].initialState)

-----------------------------------------------------------------------------
(* Properties of stores sharing a storage key, checked under SpecShared *)

\* the store has a persistence effect that saves
Saves(store) == \E i \in DOMAIN store.effects : store.effects[i].keys # {}

\* a step of the stores persisted under "app": when an action has changed a
\* cell of a saving store, the entry is that store's whole snapshot; a step
\* that makes no setItem call leaves the entry as the last writer left it
LastWriterStep ==
    /\ (lastInvoke'.store # 0 /\ Saves(stores'[lastInvoke'.store])
            /\ stores'[lastInvoke'.store].cells # lastInvoke'.before) =>
          localStorage'.items["app"] = serialize(stores'[lastInvoke'.store].cells)
    /\ localStorage'.setItems = <<>> => localStorage'.items = localStorage.items

\* a store built from a localStoragePlugin call made on the entry as it is
\* now starts from that entry
HydratesFromLastWrite ==
    (created.status = "returned" /\ lastConfig.kind = "plugin"
        /\ lastConfig.storage.items = localStorage.items
        /\ localStorage.items["app"].kind = "json") =>
        LET stored == ParsePairs(localStorage.items["app"].pairs)
        IN  stores[Len(stores)].cells =
                IF lastConfig.middlewares[1].merge
                THEN [k \in DOMAIN base.initialState \cup DOMAIN stored |->
                         IF k \in DOMAIN stored THEN stored[k]
                         ELSE base.initialState[k]]
                ELSE stored

\* C22: stores persisted under one `name` are not coordinated: the entry is
\* always the whole state-only snapshot of the store that saved last, so a
\* save of one store replaces what the other had saved, and a store built
\* later hydrates from the snapshot saved last.
C22_LastWriterWins == []HydratesFromLastWrite /\ [][LastWriterStep]_vars

\* both stores save under "app"; store 2 has just saved and the entry no
\* longer is the state of store 1
C22_Witness ==
    /\ Len(stores) = 2
    /\ Saves(stores[1])
    /\ Saves(stores[2])
    /\ lastInvoke.store = 2
    /\ stores[2].cells # lastInvoke.before
    /\ stores[1].cells # stores[1].initialState
    /\ stores[1].cells # stores[2].cells
    /\ localStorage.items["app"] = serialize(stores[2].cells)

-----------------------------------------------------------------------------
(* Properties of hydration, checked under SpecHydrate *)

\* the middleware of the latest direct localStoragePlugin call
PluginOptions == lastConfig.middlewares[1]

\* getItem or deserialize throws in a localStoragePlugin call on `storage`
HydrationThrows(name, storage) ==
    storage.fault = "denied" \/ storage.items[name].kind = "garbage"

\* C11: when getItem or deserialize throws inside localStoragePlugin, the
\* call still returns a config; with merge true its initialState is the
\* initialState of the config passed in; createStore on it returns a store.
C11_HydrationFailureCaught ==
    (lastConfig.kind = "plugin"
        /\ HydrationThrows(PluginOptions.name, lastConfig.storage)) =>
        /\ ~lastConfig.threw
        /\ config = lastConfig.output
        /\ PluginOptions.merge =>
              config.initialState = lastConfig.input.initialState
        /\ created.status # "none" =>
              /\ created.status = "returned"
              /\ PluginOptions.merge =>
                    stores[1].cells = lastConfig.input.initialState

\* a store built from the config of a merge:true call that met a corrupt entry
C11_Witness ==
    /\ lastConfig.kind = "plugin"
    /\ lastConfig.storage.fault = "none"
    /\ lastConfig.storage.items[PluginOptions.name] = Garbage
    /\ PluginOptions.merge
    /\ created.status = "returned"
    /\ stores[1].cells = base.initialState

\* the record a localStoragePlugin call on `storage` hydrates: the parsed
\* entry when there is a well-formed one and the storage can be read
Hydrated(name, storage) ==
    IF storage.fault # "denied" /\ storage.items[name].kind = "json"
    THEN ParsePairs(storage.items[name].pairs)
    ELSE EmptyRecord

\* C12: with merge true or omitted, the initialState of the returned config
\* has every key of the input initialState and of the hydrated record, with
\* the hydrated value where the hydrated record has the key and the input
\* value elsewhere.
C12_MergeOverlays ==
    (lastConfig.kind = "plugin" /\ (lastConfig.omitted \/ PluginOptions.merge)) =>
        LET hydrated == Hydrated(PluginOptions.name, lastConfig.storage)
            input == lastConfig.input.initialState
            output == lastConfig.output.initialState
        IN  /\ DOMAIN output = DOMAIN input \cup DOMAIN hydrated
            /\ \A k \in DOMAIN hydrated : output[k] = hydrated[k]
            /\ \A k \in DOMAIN input \ DOMAIN hydrated : output[k] = input[k]

\* merge omitted: the hydrated record overrides count and the input keeps total
C12_Witness ==
    /\ lastConfig.kind = "plugin"
    /\ lastConfig.omitted
    /\ lastConfig.input.initialState = [count |-> 0, total |-> 1]
    /\ Hydrated(PluginOptions.name, lastConfig.storage) = [count |-> 1]
    /\ config.initialState = [count |-> 1, total |-> 1]

\* C13: with merge false, the initialState of the returned config is exactly
\* the hydrated record: a store built from it has a cell for the hydrated
\* keys only, and the record is empty when nothing is stored or hydration
\* fails.
C13_ReplaceByHydrated ==
    (lastConfig.kind = "plugin" /\ ~lastConfig.omitted /\ ~PluginOptions.merge) =>
        LET hydrated == Hydrated(PluginOptions.name, lastConfig.storage)
            item == lastConfig.storage.items[PluginOptions.name]
        IN  /\ lastConfig.output.initialState = hydrated
            /\ created.status = "returned" => stores[1].cells = hydrated
            /\ (item \in {NoItem, EmptyText, Garbage}
                    \/ lastConfig.storage.fault = "denied") =>
                  lastConfig.output.initialState = EmptyRecord

\* merge false on a stored { count: 1 }: the store has no cell for total
C13_Witness ==
    /\ lastConfig.kind = "plugin"
    /\ ~PluginOptions.merge
    /\ lastConfig.input.initialState = [count |-> 0, total |-> 1]
    /\ created.status = "returned"
    /\ stores[1].cells = [count |-> 1]

\* C19: a localStoragePlugin call reads the entry once, when it is called;
\* the cells of a store built from the returned config start from what the
\* entry held at that call, whatever the entry has been set to since.
C19_HydratedAtCallTime ==
    lastConfig.kind = "plugin" =>
        /\ lastConfig.reads = <<PluginOptions.name>>
        /\ created.status = "returned" =>
              stores[1].cells =
                  LET hydrated == Hydrated(PluginOptions.name, lastConfig.storage)
                  IN  IF PluginOptions.merge
                      THEN [k \in DOMAIN lastConfig.input.initialState
                                    \cup DOMAIN hydrated |->
                               IF k \in DOMAIN hydrated THEN hydrated[k]
                               ELSE lastConfig.input.initialState[k]]
                      ELSE hydrated

\* the entry held { count: 1 } at the call and holds { count: 2, total: 0 }
\* when the store exists: the store starts from count 1
C19_Witness ==
    /\ lastConfig.kind = "plugin"
    /\ lastConfig.storage.items[PluginOptions.name] = JsonText(<<<<"count", 1>>>>)
    /\ localStorage.items[PluginOptions.name] =
           JsonText(<<<<"count", 2>>, <<"total", 0>>>>)
    /\ localStorage.fault = "none"
    /\ created.status = "returned"
    /\ stores[1].cells["count"] = 1

\* C23: for a base config none of whose derived keys is one of its
\* initialState keys, createStore(localStoragePlugin(config, { name }))
\* returns a store whatever the entry under `name` holds.
C23_HydrationNeverFatal ==
    (created.status # "none" /\ lastConfig.kind = "plugin" /\ lastConfig.omitted
        /\ SeqRange(lastConfig.input.derived)
               \cap DOMAIN lastConfig.input.initialState = {}) =>
        created.status = "returned"

-----------------------------------------------------------------------------
(* Properties of middleware composition, checked under SpecCompose *)

\* the hook trace of a hook built by `middlewares` over the hook `prior`:
\* the effect of the last middleware first, the prior hook's own trace last
ExpectedTrace(middlewares, prior) ==
    LET n == Len(middlewares)
    IN  [i \in 1..n |-> EffectInstalled(middlewares[n + 1 - i].name)]
        \o [i \in DOMAIN prior |->
               IF prior[i].kind = "persist" THEN EffectInstalled(prior[i].name)
               ELSE UserHookCalled]

\* C14: the hook of a config returned by localStoragePlugin, run on a store,
\* installs the persistence effect and then calls the hook of the config that
\* was passed in, once; with several localStoragePlugin layers every layer's
\* effect is installed once and the innermost hook is called once.
C14_LayeredHooksRunOnce ==
    (stores # <<>> /\ stores[1].hookTrace # <<>> /\ lastConfig.kind # "none"
        /\ stores[1].onStoreCreated = lastConfig.output.onStoreCreated) =>
        LET st == stores[1]
            prior == lastConfig.input.onStoreCreated
        IN  /\ st.hookTrace = ExpectedTrace(lastConfig.middlewares, prior)
            /\ st.hookRuns = Len(prior) - Layers(prior)
            /\ Len(st.effects) = Len(lastConfig.middlewares) + Layers(prior)
            /\ \A i \in DOMAIN st.effects :
                  st.effects[i].keys # {} =>
                      localStorage.items[st.effects[i].name] = serialize(st.cells)

\* localStoragePlugin applied for "app" and then for "cart" to a config with
\* a hook: the store has both effects, both entries, and the hook ran once
C14_Witness ==
    /\ stores # <<>>
    /\ lastConfig.kind = "compose"
    /\ stores[1].onStoreCreated = lastConfig.output.onStoreCreated
    /\ stores[1].hookTrace =
           <<EffectInstalled("cart"), EffectInstalled("app"), UserHookCalled>>
    /\ stores[1].hookRuns = 1
    /\ localStorage.items["app"] = serialize(stores[1].cells)
    /\ localStorage.items["cart"] = serialize(stores[1].cells)

\* m_n(... m_1(cfg) ...) for the first n middlewares of a list
RECURSIVE Nested(_, _, _, _)
Nested(middlewares, n, cfg, storage) ==
    IF n = 0 THEN cfg
    ELSE localStoragePlugin(Nested(middlewares, n - 1, cfg, storage),
                            middlewares[n].name, middlewares[n].merge, storage)

\* C16: compose(m1, ..., mn)(config) calls m1, ..., mn once each in that
\* order, each on the result of the one before, so that its result is
\* mn(...m1(config)...); compose()(config) is config.
C16_ComposeLeftToRight ==
    lastConfig.kind = "compose" =>
        LET n == Len(lastConfig.middlewares)
        IN  /\ lastConfig.calls = [i \in 1..n |-> i]
            /\ lastConfig.output =
                  Nested(lastConfig.middlewares, n, lastConfig.input,
                         lastConfig.storage)
            /\ n = 0 => lastConfig.output = lastConfig.input
            /\ config = lastConfig.output

\* compose(app-replace, cart-merge) on a stored { count: 1 } under "app": the
\* "cart" layer is outermost and the state is the stored record alone
C16_Witness ==
    /\ lastConfig.kind = "compose"
    /\ lastConfig.middlewares = <<Middleware("app", FALSE), Middleware("cart", TRUE)>>
    /\ lastConfig.storage.items["app"] = JsonText(<<<<"count", 1>>>>)
    /\ Head(config.onStoreCreated).name = "cart"
    /\ config.initialState = [count |-> 1]

\* C20 as stated: localStoragePlugin and compose leave the config they are
\* given unchanged, and return a new config object with the derived map and
\* the actions of the input.
C20_ResultIsNewObject ==
    lastConfig.kind # "none" =>
        /\ lastConfig.inputAfter = lastConfig.input
        /\ lastConfig.output.derived = lastConfig.input.derived
        /\ lastConfig.output.actions = lastConfig.input.actions
        /\ ~lastConfig.sameObject

\* C20: localStoragePlugin and compose leave the config they are given
\* unchanged and return a config with the derived map and the actions of the
\* input; the result is a new object, except that compose with no middleware
\* returns the very object it was given.
C20_InputConfigUntouched ==
    lastConfig.kind # "none" =>
        /\ lastConfig.inputAfter = lastConfig.input
        /\ base = lastConfig.input
        /\ lastConfig.output.derived = lastConfig.input.derived
        /\ lastConfig.output.actions = lastConfig.input.actions
        /\ lastConfig.sameObject <=>
              (lastConfig.kind = "compose" /\ lastConfig.middlewares = <<>>)
        /\ ~lastConfig.sameObject => lastConfig.output # lastConfig.input

\* a composed config differs from the base it was made from, which still has
\* its own initialState and hook
C20_Witness ==
    /\ lastConfig.kind = "compose"
    /\ Len(lastConfig.middlewares) = 2
    /\ lastConfig.storage.items["app"] = JsonText(<<<<"count", 1>>>>)
    /\ base = lastConfig.input
    /\ base.onStoreCreated = <<UserHook>>
    /\ config.initialState # base.initialState
    /\ Len(config.onStoreCreated) = 3

-----------------------------------------------------------------------------
(* Properties of a failing storage, checked under SpecFault *)

\* a bound action on a store with the persistence effect, invoked while the
\* storage throws: the caller sees no storage error and the writes stand
SaveFailureIsSilent ==
    (lastInvoke.store # 0 /\ stores[lastInvoke.store].effects # <<>>
        /\ lastInvoke.storage.fault # "none") =>
        LET raw == ActionFn(lastInvoke.name, lastInvoke.before, lastInvoke.args)
        IN  /\ lastInvoke.error = IF raw.threw THEN TypeErr ELSE Undefined
            /\ stores[lastInvoke.store].cells =
                   ApplyWrites(lastInvoke.before, raw.writes)
            /\ localStorage.items = lastInvoke.storage.items

\* a change of a cell of a store with the persistence effect, by an action or
\* by a direct write: the effect stays installed; the entries are untouched
\* while the storage throws, and hold the new snapshot when it does not
SaveAttemptedOnChange ==
    (Len(stores) = 1 /\ Len(stores') = 1 /\ stores[1].effects # <<>>
        /\ stores'[1].cells # stores[1].cells) =>
        /\ stores'[1].effects = stores[1].effects
        /\ localStorage.fault # "none" => localStorage'.items = localStorage.items
        /\ localStorage.fault = "none" =>
              \A i \in DOMAIN stores[1].effects :
                  localStorage'.items[stores[1].effects[i].name] =
                      serialize(stores'[1].cells)

\* C15: when setItem throws in the persistence effect, the error is caught:
\* the bound action or cell write that changed the cell completes, the cell
\* keeps the new value, the storage entry keeps its previous content, and
\* the next change is saved again once the storage accepts writes.
C15_SaveFailureCaught ==
    []SaveFailureIsSilent /\ [][SaveAttemptedOnChange]_vars

\* an action has just been saved although the entry was out of date before
\* it: an earlier change was lost to a throwing storage
C15_Witness ==
    /\ lastInvoke.store # 0
    /\ stores[lastInvoke.store].effects # <<>>
    /\ lastInvoke.storage.fault = "none"
    /\ lastInvoke.storage.items["app"].kind = "json"
    /\ lastInvoke.storage.items["app"] # serialize(lastInvoke.before)
    /\ stores[lastInvoke.store].cells # lastInvoke.before
    /\ localStorage.items["app"] = serialize(stores[lastInvoke.store].cells)

-----------------------------------------------------------------------------
(* Properties of telemetry, checked under SpecTelemetry *)

SortPair(cells) == <<cells.sortBy, cells.sortDirection>>

\* what a step must send: one SORT_CHANGED with the new pair and the pair in
\* force before the step when telemetry is on and the step changes the pair,
\* nothing otherwise
ExpectedEvents(wasActive, isActive, old, new) ==
    IF wasActive /\ isActive /\ new # old
    THEN <<SortChanged(new[1], new[2], old[1], old[2])>>
    ELSE <<>>

TelemetryStep ==
    telemetry'.sent = ExpectedEvents(telemetry.status = "active",
                                     telemetry'.status = "active",
                                     SortPair(stores[1].cells),
                                     SortPair(stores'[1].cells))

\* C27: after initializeTelemetry() exactly one SORT_CHANGED is sent for each
\* store change that changes (sortBy, sortDirection), carrying the new pair and
\* the pair before the change; nothing is sent at initialization, by an action
\* that sets the current value, by a change of another field, or after dispose
C27_SortChangedOncePerChange == [][TelemetryStep]_vars

\* a second change of the pair has been reported while telemetry is on
C27_Witness ==
    /\ telemetry.status = "active"
    /\ telemetry.sent # <<>>
    /\ telemetry.sent[1].prevSortBy = "price"
    /\ telemetry.sent[1].sortDirection = "desc"

====
